---- MODULE Spec2Model ----
(***************************************************************************)
(* Verification model of the hovercraft prototypes.                        *)
(*   - src/bin/astar.rs : the ASCII dungeon map (Mapp) with its room        *)
(*     placement and the stubbed pathfinder.                                *)
(***************************************************************************)
EXTENDS Integers, Naturals, Sequences, FiniteSets, TLC

(***************************************************************************)
(* astar.rs : program constants                                            *)
(***************************************************************************)
MAX_ADDROOM_FAILS == 3
\* Mapp::default() is Mapp::new(20, 80)
MapHeight == 20
MapWidth == 80
\* rng.gen_range(0..75), rng.gen_range(0..15)
StartXRange == 75
StartYRange == 15
\* min(10, 79 - start_x), min(10, 19 - start_y), gen_range(4..=max)
MaxRoomSize == 10
MinRoomSize == 4
LastCol == 79
LastRow == 19

(***************************************************************************)
(* Bounds of the model.  The random generator draws the start corner of a  *)
(* room from 75 x 15 cells; the model draws start_x from the SampleWidth    *)
(* lowest values of its range and start_y from the SampleWidth highest     *)
(* values of its range, so that the sampled rooms meet each other, the     *)
(* MaxRoomSize cap binds on the x axis and the map edge binds on the y      *)
(* axis.  Room sizes are drawn from the two ends of their range.            *)
(***************************************************************************)
SampleWidth == 2

Terrain == {"Innards", "Corridor", "TallWall", "WideWall", "Full", "Debug"}

Min(a, b) == IF a < b THEN a ELSE b

\* Terrain::diggable
diggable(t) == t = "Corridor" \/ t = "Full"

\* the values of lo..hi (inclusive) that the model draws
low_range(lo, hi) == {v \in lo..hi : v < lo + SampleWidth}
high_range(lo, hi) == {v \in lo..hi : v > hi - SampleWidth}
end_range(lo, hi) == {lo, hi}

\* the draws of one add_room call: <<start_x, start_y, size_x, size_y>>
RoomDraws ==
    UNION {
      {<<start_x, start_y, size_x, size_y>> :
          size_x \in end_range(MinRoomSize, Min(MaxRoomSize, LastCol - start_x)),
          size_y \in end_range(MinRoomSize, Min(MaxRoomSize, LastRow - start_y))} :
      start_x \in low_range(0, StartXRange - 1),
      start_y \in high_range(0, StartYRange - 1)}

\* Mapp::new(height, width): every cell Full, no rooms
NewData(height, width) == [y \in 0..(height - 1) |-> [x \in 0..(width - 1) |-> "Full"]]

\* astar.rs: the Mapp, the position of its caller and the last call's result
VARIABLES data, rooms, pc, addroom_fails, last_ret

\* hovercraft.rs: run_game and get_fontsize
VARIABLES hc_pc, fontsize, highest_fit, font_size, last_fit, probes, hc_err, in_loop

\* bageltown.rs and hovermvp.rs: which of the two programs runs, the frame's
\* time.delta(), the tag state and the places of the player and the bot
VARIABLES prog, delta, tag_timer, tag_ready, p_it, b_it, proclamation,
          p_pos, b_pos, ticked_since_tag

\* bageltown.rs and hovermvp.rs: the orbit of the bot.  since_calc is the game
\* time since the destination was last computed, calc_slack the delta of the
\* frame in which that was, calc_flip changes with every computation
VARIABLES orbit_timer, destination, bot_steer, since_calc, calc_slack, calc_flip

\* the systems of the running schedule pass that have not run yet
VARIABLES todo

\* hovermvp.rs: the fixed steps taken, whether a system has panicked, the two
\* Pilot components, the visibility of the lasers and the LaserSound map, the
\* init resources, the 10 Hz and bot laser timers, and the bot's models; hits
\* is the set of pilots for whose laser laser::hits returned true in the
\* latest run of handle_laser
VARIABLES steps, crashed, pilots, laser_vis, sound_playing, hits,
          cannon_initialized, laser_initialized,
          timer10bot, timer10laser, timer_bot_laser,
          ship_vis, explode_vis, anim_playing

astarVars == <<data, rooms, pc, addroom_fails, last_ret>>

fontVars == <<hc_pc, fontsize, highest_fit, font_size, last_fit, probes, hc_err, in_loop>>

\* the tag state of handle_tag
tagVars == <<tag_timer, tag_ready, p_it, b_it, proclamation, ticked_since_tag>>

\* the transforms of the player and of the bot
posVars == <<p_pos, b_pos>>

\* the orbit state of move_bot
orbitVars == <<orbit_timer, destination, bot_steer, since_calc, calc_slack, calc_flip>>

\* the state of hovermvp.rs alone
mvpVars == <<steps, crashed, pilots, laser_vis, sound_playing, hits,
             cannon_initialized, laser_initialized,
             timer10bot, timer10laser, timer_bot_laser,
             ship_vis, explode_vis, anim_playing>>

gameVars == <<prog, delta, todo, tagVars, posVars, orbitVars, mvpVars>>

vars == <<astarVars, fontVars, gameVars>>

\* the variables of the programs other than astar.rs
notAstar == <<fontVars, gameVars>>

\* the variables of the programs other than hovercraft.rs
notFont == <<astarVars, gameVars>>

\* the variables of the programs other than the two tag games
notGame == <<astarVars, fontVars>>

\* (a corner test that forgets the corner data[start_y][end_x])
CornersBlockedThree(d, start_x, start_y, end_x, end_y) ==
    \/ d[start_y][start_x] # "Full"
    \/ d[end_y][end_x] # "Full"
    \/ d[end_y][start_x] # "Full"

\* the corner test of add_room: TRUE when the room cannot be placed
CornersBlocked(d, start_x, start_y, end_x, end_y) ==
    \/ d[start_y][start_x] # "Full"
    \/ d[end_y][end_x] # "Full"
    \/ d[start_y][end_x] # "Full"
    \/ d[end_y][start_x] # "Full"

\* (a room drawn with end_x and end_y taken as its last column and row)
RoomCellInclusive(old, y, x, start_x, start_y, end_x, end_y) ==
    IF x >= start_x /\ x <= end_x /\ (y = start_y \/ y = end_y)
    THEN "WideWall"
    ELSE IF y > start_y /\ y < end_y
         THEN IF x = start_x \/ x = end_x THEN "TallWall"
              ELSE IF x > start_x /\ x < end_x THEN "Innards"
              ELSE old
         ELSE old

\* the terrain add_room writes to cell (y, x), given the cell's old terrain
RoomCell(old, y, x, start_x, start_y, end_x, end_y) ==
    IF x >= start_x /\ x < end_x /\ (y = start_y \/ y = end_y - 1)
    THEN "WideWall"
    ELSE IF y > start_y /\ y < end_y - 1
         THEN IF x = start_x \/ x = end_x - 1 THEN "TallWall"
              ELSE IF x > start_x /\ x < end_x - 1 THEN "Innards"
              ELSE old
         ELSE old

\* the grid after the loops of a successful add_room
DrawRoom(d, start_x, start_y, end_x, end_y) ==
    [y \in DOMAIN d |->
        IF y < start_y \/ y > end_y THEN d[y]
        ELSE [x \in DOMAIN d[y] |-> RoomCell(d[y][x], y, x, start_x, start_y, end_x, end_y)]]

Room(x, y, width, height) == [x |-> x, y |-> y, width |-> width, height |-> height]

\* add_room with the four values drawn from the generator:
\* the result is <<returned bool, data, rooms>>
add_room(d, rs, start_x, start_y, size_x, size_y) ==
    LET end_x == start_x + size_x
        end_y == start_y + size_y
    IN IF CornersBlocked(d, start_x, start_y, end_x, end_y)
       THEN <<FALSE, d, rs>>
       ELSE <<TRUE, DrawRoom(d, start_x, start_y, end_x, end_y),
              Append(rs, Room(start_x, start_y, size_x, size_y))>>

\* what a call of add_room leaves in last_ret
AddRoomRet(ret, dr) ==
    [op |-> "add_room", ret |-> ret,
     start_x |-> dr[1], start_y |-> dr[2], size_x |-> dr[3], size_y |-> dr[4]]

\* (a counter that counts the rooms placed instead of the failures)
next_fails_inverted(ret, fails) == IF ret THEN fails + 1 ELSE fails

\* the counter of add_rooms after one add_room
next_fails(ret, fails) == IF ~ret THEN fails + 1 ELSE fails

Pair(y, x) == [y |-> y, x |-> x]

NoPair == [y |-> -1, x |-> -1]

\* get_random_wall: the wall cells of a room without its corners
Candidates(src) ==
    {Pair(src.y, src.x + i) : i \in 1..(src.width - 2)}
    \cup {Pair(src.y + src.height - 1, src.x + i) : i \in 1..(src.width - 2)}
    \cup {Pair(src.y + i, src.x) : i \in 1..(src.height - 2)}
    \cup {Pair(src.y + i, src.x + src.width - 1) : i \in 1..(src.height - 2)}

\* get_random_wall: the cell outside the wall cell p (coord2), NoPair where
\* the loop continues without one.  Every candidate is on one of the four
\* walls, so the "uh oh" branch is never taken.
Outside(d, src, p) ==
    IF p.y = src.y
    THEN IF p.y = 0 THEN NoPair ELSE Pair(p.y - 1, p.x)
    ELSE IF p.y = src.y + src.height - 1
    THEN IF src.y + src.height >= Cardinality(DOMAIN d) THEN NoPair ELSE Pair(p.y + 1, p.x)
    ELSE IF p.x = src.x
    THEN IF p.x = 0 THEN NoPair ELSE Pair(p.y, p.x - 1)
    ELSE IF p.x = src.x + src.width - 1
    THEN IF src.x + src.width >= Cardinality(DOMAIN d[0]) THEN NoPair ELSE Pair(p.y, p.x + 1)
    ELSE NoPair

\* get_random_wall: the pairs (wall cell, cell outside) the loop can end with
WallResults(d, src) ==
    {<<p, Outside(d, src, p)>> : p \in
        {q \in Candidates(src) :
            LET o == Outside(d, src, q)
            IN o # NoPair /\ diggable(d[o.y][o.x])}}

\* the grid after get_random_wall chose wall cell p (maybe_ret is only read)
wall_data(d, p) == d

\* (a path that digs its first node)
path_data_dig(d, start_cell, first_node) ==
    [d EXCEPT ![first_node.y][first_node.x] = "Corridor"]

\* the grid after path(src, dst): the body below the two get_random_wall
\* calls is comments (end_cell, the result of the second call, is any of
\* WallResults and is not used either)
path_data(d, start_cell, first_node) == d

AstarInit ==
    /\ data = NewData(MapHeight, MapWidth)
    /\ rooms = <<>>
    /\ pc = "idle"
    /\ addroom_fails = 0
    /\ last_ret = [op |-> "none"]

\* a call of add_room
AddRoom ==
    /\ pc = "idle"
    /\ \E dr \in RoomDraws :
          LET r == add_room(data, rooms, dr[1], dr[2], dr[3], dr[4])
          IN /\ data' = r[2]
             /\ rooms' = r[3]
             /\ last_ret' = AddRoomRet(r[1], dr)
    /\ pc' = "called"
    /\ UNCHANGED addroom_fails
    /\ UNCHANGED notAstar

\* add_rooms: let mut addroom_fails = 0
AddRoomsBegin ==
    /\ pc = "idle"
    /\ pc' = "add_rooms"
    /\ addroom_fails' = 0
    /\ last_ret' = [op |-> "add_rooms"]
    /\ UNCHANGED <<data, rooms>>
    /\ UNCHANGED notAstar

\* add_rooms: one iteration of the while loop
AddRoomsIter ==
    /\ pc = "add_rooms"
    /\ addroom_fails < MAX_ADDROOM_FAILS
    /\ \E dr \in RoomDraws :
          LET r == add_room(data, rooms, dr[1], dr[2], dr[3], dr[4])
          IN /\ data' = r[2]
             /\ rooms' = r[3]
             /\ addroom_fails' = next_fails(r[1], addroom_fails)
             /\ last_ret' = AddRoomRet(r[1], dr)
    /\ UNCHANGED pc
    /\ UNCHANGED notAstar

\* add_rooms: the loop condition fails, the function returns
AddRoomsEnd ==
    /\ pc = "add_rooms"
    /\ ~(addroom_fails < MAX_ADDROOM_FAILS)
    /\ pc' = "called"
    /\ last_ret' = [op |-> "add_rooms_done"]
    /\ UNCHANGED <<data, rooms, addroom_fails>>
    /\ UNCHANGED notAstar

\* a call of get_random_wall(src_index) that returns
GetRandomWall ==
    /\ pc = "idle"
    /\ \E i \in 1..Len(rooms) :
         \E r \in WallResults(data, rooms[i]) :
            /\ data' = wall_data(data, r[1])
            /\ last_ret' = [op |-> "get_random_wall", src |-> i - 1, ret |-> r]
    /\ pc' = "called"
    /\ UNCHANGED <<rooms, addroom_fails>>
    /\ UNCHANGED notAstar

\* a call of get_random_wall(src_index) for a room none of whose wall cells
\* has a diggable cell outside: the while loop never ends
GetRandomWallSpin ==
    /\ pc = "idle"
    /\ \E i \in 1..Len(rooms) :
          /\ WallResults(data, rooms[i]) = {}
          /\ last_ret' = [op |-> "get_random_wall", src |-> i - 1]
    /\ pc' = "spin"
    /\ UNCHANGED <<data, rooms, addroom_fails>>
    /\ UNCHANGED notAstar

\* a call of get_random_wall(src_index) with no such room: the index panics
GetRandomWallPanic ==
    /\ pc = "idle"
    /\ last_ret' = [op |-> "get_random_wall", src |-> Len(rooms)]
    /\ pc' = "panic"
    /\ UNCHANGED <<data, rooms, addroom_fails>>
    /\ UNCHANGED notAstar

\* path(src, dst) with rooms[src] and rooms[dst], when both walls are found
PathBody(s, t) ==
    \E r1 \in WallResults(data, rooms[s]) :
      /\ WallResults(wall_data(data, r1[1]), rooms[t]) # {}
      /\ data' = path_data(wall_data(data, r1[1]), r1[1], r1[2])

\* a call of path(src, dst)
Path ==
    /\ pc = "idle"
    /\ \E s \in 1..Len(rooms), t \in 1..Len(rooms) :
          /\ PathBody(s, t)
          /\ last_ret' = [op |-> "path", src |-> s - 1, dst |-> t - 1]
    /\ pc' = "called"
    /\ UNCHANGED <<rooms, addroom_fails>>
    /\ UNCHANGED notAstar

\* a call of add_paths: nothing with more than two rooms, path(0, 1) with two
AddPaths ==
    /\ pc = "idle"
    /\ IF Len(rooms) > 2 \/ Len(rooms) < 2
       THEN data' = data
       ELSE PathBody(1, 2)
    /\ last_ret' = [op |-> "add_paths", rooms |-> Len(rooms)]
    /\ pc' = "called"
    /\ UNCHANGED <<rooms, addroom_fails>>
    /\ UNCHANGED notAstar

\* the caller is done with what the call returned
DropRet ==
    /\ pc = "called"
    /\ pc' = "idle"
    /\ last_ret' = [op |-> "none"]
    /\ UNCHANGED <<data, rooms, addroom_fails>>
    /\ UNCHANGED notAstar

(***************************************************************************)
(* hovercraft.rs : run_game and get_fontsize                               *)
(***************************************************************************)
\* for fontsize in 8..128
FirstFontSize == 8
EndFontSize == 128
\* println!("no valid fontsize found!"); 8
FallbackFontSize == 8

\* Option<u16>::None, and font_size before get_fontsize returned
NoSize == 0

\* what one font_fits call returns: Ok(true), Ok(false) or Err(_)
FitResults == {"fit", "nofit", "err"}

\* (a loop that takes an Err of font_fits for "did not fit")
probe_step_lenient(out, size, highest) ==
    IF out = "fit"
    THEN [pc |-> "get_fontsize", fontsize |-> size + 1, highest_fit |-> size,
          font_size |-> NoSize, err |-> "none"]
    ELSE [pc |-> "got_fontsize", fontsize |-> size, highest_fit |-> highest,
          font_size |-> IF highest # NoSize THEN highest ELSE FallbackFontSize,
          err |-> "none"]

\* get_fontsize: one iteration of the for loop, given what font_fits returned
probe_step(out, size, highest) ==
    IF out = "err"
    THEN [pc |-> "returned_err", fontsize |-> size, highest_fit |-> highest,
          font_size |-> NoSize, err |-> "font_fits"]
    ELSE IF out = "fit"
    THEN [pc |-> "get_fontsize", fontsize |-> size + 1, highest_fit |-> size,
          font_size |-> NoSize, err |-> "none"]
    ELSE [pc |-> "got_fontsize", fontsize |-> size, highest_fit |-> highest,
          font_size |-> IF highest # NoSize THEN highest ELSE FallbackFontSize,
          err |-> "none"]

FontInit ==
    /\ hc_pc = "start"
    /\ fontsize = FirstFontSize
    /\ highest_fit = NoSize
    /\ font_size = NoSize
    /\ last_fit = "none"
    /\ probes = 0
    /\ hc_err = "none"
    /\ in_loop = FALSE

\* run_game up to the call of get_fontsize: sdl2::init, video, the display
\* mode, ttf init, the window and the canvas, each with "?"
Startup ==
    /\ hc_pc = "start"
    /\ \E ok \in BOOLEAN :
          /\ hc_pc' = IF ok THEN "get_fontsize" ELSE "returned_err"
          /\ hc_err' = IF ok THEN "none" ELSE "startup"
    /\ fontsize' = FirstFontSize
    /\ highest_fit' = NoSize
    /\ UNCHANGED <<font_size, last_fit, probes, in_loop>>
    /\ UNCHANGED notFont

\* get_fontsize: one iteration of the for loop with its font_fits call
FontFits ==
    /\ hc_pc = "get_fontsize"
    /\ fontsize < EndFontSize
    /\ \E out \in FitResults :
          LET r == probe_step(out, fontsize, highest_fit)
          IN /\ last_fit' = out
             /\ hc_pc' = r.pc
             /\ fontsize' = r.fontsize
             /\ highest_fit' = r.highest_fit
             /\ font_size' = r.font_size
             /\ hc_err' = r.err
    /\ probes' = probes + 1
    /\ UNCHANGED in_loop
    /\ UNCHANGED notFont

\* get_fontsize: the range 8..128 is used up, every size fit
FontLoopEnd ==
    /\ hc_pc = "get_fontsize"
    /\ fontsize >= EndFontSize
    /\ hc_pc' = "got_fontsize"
    /\ font_size' = IF highest_fit # NoSize THEN highest_fit ELSE FallbackFontSize
    /\ UNCHANGED <<fontsize, highest_fit, last_fit, probes, hc_err, in_loop>>
    /\ UNCHANGED notFont

\* run_game after get_fontsize: load_font, render, the texture, each with
\* "?", then the world is built and the main loop is entered
EnterMainLoop ==
    /\ hc_pc = "got_fontsize"
    /\ \E ok \in BOOLEAN :
          /\ hc_pc' = IF ok THEN "mainloop" ELSE "returned_err"
          /\ hc_err' = IF ok THEN "none" ELSE "load_font"
          /\ in_loop' = ok
    /\ UNCHANGED <<fontsize, highest_fit, font_size, last_fit, probes>>
    /\ UNCHANGED notFont

\* run_game: the main loop ends on Escape or Quit (Ok) or on a failing
\* event_pump or canvas.copy (Err)
LeaveMainLoop ==
    /\ hc_pc = "mainloop"
    /\ \E ok \in BOOLEAN :
          /\ hc_pc' = IF ok THEN "returned_ok" ELSE "returned_err"
          /\ hc_err' = IF ok THEN "none" ELSE "mainloop"
    /\ UNCHANGED <<fontsize, highest_fit, font_size, last_fit, probes, in_loop>>
    /\ UNCHANGED notFont

(***************************************************************************)
(* bageltown.rs and hovermvp.rs : time                                     *)
(* Time is counted in fixed steps of 1 / MAX_FRAMERATE seconds.            *)
(***************************************************************************)
\* const MAX_FRAMERATE: f32 = 60.: the fixed steps of one second
StepsPerSecond == 60
\* Timer::from_seconds(1.0, TimerMode::Once), in steps
TagCooldown == 60
\* const PLAYER_RADIUS: f32 = 10. (bageltown.rs), const BOT_RADIUS: f32 = 10.
\* (hovermvp.rs)
PLAYER_RADIUS == 10
BOT_RADIUS == 10
\* Transform::from_xyz(50.0, 0.0, 0.0), BOT_START_OFFSET
BOT_START_OFFSET == 50

\* the longest ordinary frame of the model, in steps
MaxFrameSteps == 3

\* the values of time.delta() in the Update schedule: 0 (the first frame),
\* ordinary frames, and a frame as long as the tag cooldown
Deltas == (0..MaxFrameSteps) \cup {TagCooldown}

Progs == {"bageltown", "hovermvp"}

\* bevy Timer::new: nothing elapsed, not finished
NewTimer == [elapsed |-> 0, finished |-> FALSE]

\* bevy Timer::reset
reset(t) == [elapsed |-> 0, finished |-> FALSE]

\* bevy Timer::tick of a TimerMode::Once timer: a finished timer stays as it
\* is, otherwise the elapsed time grows up to the duration
tick_once(t, d, duration) ==
    IF t.finished THEN t
    ELSE IF t.elapsed + d >= duration
         THEN [elapsed |-> duration, finished |-> TRUE]
         ELSE [elapsed |-> t.elapsed + d, finished |-> FALSE]

\* bevy Timer::tick of a TimerMode::Repeating timer: finished() is true only
\* after a tick in which the duration was reached, and the rest is kept
tick_repeating(t, d, duration) ==
    IF t.elapsed + d >= duration
    THEN [elapsed |-> (t.elapsed + d) % duration, finished |-> TRUE]
    ELSE [elapsed |-> t.elapsed + d, finished |-> FALSE]

(***************************************************************************)
(* bageltown.rs and hovermvp.rs : the places of the player and the bot     *)
(***************************************************************************)
Vec2(x, y) == [x |-> x, y |-> y]

\* the places the model lets the player and the bot be at
PlayerSpots == {Vec2(0, 0), Vec2(0, 1)}
BotSpots == {Vec2(BOT_START_OFFSET, 0), Vec2(12, 16), Vec2(12, 15)}

\* handle_tag: x_delta.powf(2.) + y_delta.powf(2.), the square of distance
Dist2(a, b) == (a.x - b.x) * (a.x - b.x) + (a.y - b.y) * (a.y - b.y)

\* handle_tag: distance < 2. * PLAYER_RADIUS (2. * BOT_RADIUS in hovermvp.rs)
InTagRange(pr, a, b) ==
    LET radius == IF pr = "bageltown" THEN PLAYER_RADIUS ELSE BOT_RADIUS
    IN Dist2(a, b) < (2 * radius) * (2 * radius)

(***************************************************************************)
(* bageltown.rs and hovermvp.rs : handle_tag                               *)
(***************************************************************************)
\* (a tag that flips the player's flag only)
tag_swap_player_only(pit, bit) == <<~pit, bit>>

\* handle_tag: p.it = !p.it; b.it = !b.it
tag_swap(pit, bit) == <<~pit, ~bit>>

\* (a tag that leaves the cooldown timer as it is)
timer_after_tag_kept(t) == t

\* handle_tag: timer.timer.reset()
timer_after_tag(t) == reset(t)

\* handle_tag as a function of what it reads: the cooldown timer, TagReady,
\* the two it flags, the proclamation, whether the two are in range, and
\* time.delta()
handle_tag(t, ready, pit, bit, proc, near, d) ==
    LET t1 == tick_once(t, d, TagCooldown)
    IN IF ~t1.finished
       THEN [timer |-> t1, ready |-> ready, p_it |-> pit, b_it |-> bit,
             proc |-> proc, tagged |-> FALSE]
       ELSE IF near
            THEN LET sw == tag_swap(pit, bit)
                 IN [timer |-> timer_after_tag(t1), ready |-> FALSE,
                     p_it |-> sw[1], b_it |-> sw[2],
                     proc |-> IF sw[1] THEN "Visible" ELSE "Hidden",
                     tagged |-> TRUE]
            ELSE [timer |-> t1, ready |-> TRUE, p_it |-> pit, b_it |-> bit,
                  proc |-> IF pit THEN "Visible" ELSE "Hidden",
                  tagged |-> FALSE]

\* setup: TagReady {ready: true}, the cooldown timer, Player {it: false} and
\* Bot {it: true} (Pilot {it: true} for the bot of hovermvp.rs), the hidden
\* proclamation, the player at the origin and the bot at 50 on the x axis
TagInit ==
    /\ tag_timer = NewTimer
    /\ tag_ready = TRUE
    /\ p_it = FALSE
    /\ b_it = TRUE
    /\ proclamation = "Hidden"
    /\ ticked_since_tag = 0

PosInit ==
    /\ p_pos = Vec2(0, 0)
    /\ b_pos = Vec2(BOT_START_OFFSET, 0)

\* one frame's run of handle_tag
HandleTag ==
    /\ \E d \in Deltas :
          LET r == handle_tag(tag_timer, tag_ready, p_it, b_it, proclamation,
                              InTagRange(prog, b_pos, p_pos), d)
          IN /\ delta' = d
             /\ tag_timer' = r.timer
             /\ tag_ready' = r.ready
             /\ p_it' = r.p_it
             /\ b_it' = r.b_it
             /\ proclamation' = r.proc
             /\ ticked_since_tag' =
                   IF r.tagged THEN 0 ELSE Min(ticked_since_tag + d, TagCooldown)
    /\ UNCHANGED <<prog, todo, posVars, orbitVars, mvpVars>>
    /\ UNCHANGED notGame

\* the player and the bot move (apply_velocity, and move_bot of bageltown.rs)
MoveShips ==
    /\ \E pp \in PlayerSpots, bp \in BotSpots :
          /\ <<pp, bp>> # <<p_pos, b_pos>>
          /\ p_pos' = pp
          /\ b_pos' = bp
    /\ todo = {}
    /\ UNCHANGED <<prog, delta, todo, tagVars, orbitVars, mvpVars>>
    /\ UNCHANGED notGame

(***************************************************************************)
(* bageltown.rs and hovermvp.rs : the orbit of the bot                     *)
(***************************************************************************)
\* const ORBIT_CALC_INTERVAL: f32 = 0.2, in steps
OrbitInterval == 12
\* const ORBIT_DISTANCE: f32 = 50.
ORBIT_DISTANCE == 50

\* OrbitCache::default(): Vec2::ZERO
ZeroDest == [center |-> Vec2(0, 0), r |-> 0, ahead_of |-> Vec2(0, 0)]

\* physics::orbit: the point at orbit_distance from target_location, at the
\* angle of cur_location seen from there plus RADIANS_AHEAD.  The point is
\* kept as the three values that determine it.
orbit(cur_location, target_location, orbit_distance) ==
    [center |-> target_location, r |-> orbit_distance, ahead_of |-> cur_location]

\* (a destination computed on every call)
next_destination_always(finished, dest, cur, target) ==
    orbit(cur, target, ORBIT_DISTANCE)

\* move_bot: only update destination if it's time
next_destination(finished, dest, cur, target) ==
    IF finished THEN orbit(cur, target, ORBIT_DISTANCE) ELSE dest

OrbitInit ==
    /\ orbit_timer = NewTimer
    /\ destination = ZeroDest
    /\ bot_steer = ZeroDest
    /\ since_calc = 0
    /\ calc_slack = 0
    /\ calc_flip = FALSE

\* move_bot from the tick of the orbit timer on, with the delta d it is given:
\* the timer, the cached destination and what the bot steers toward
OrbitPart(d) ==
    LET t1 == tick_repeating(orbit_timer, d, OrbitInterval)
    IN /\ orbit_timer' = t1
       /\ destination' = next_destination(t1.finished, destination, b_pos, p_pos)
       /\ bot_steer' = destination'
       /\ since_calc' = IF t1.finished THEN 0 ELSE since_calc
       /\ calc_slack' = IF t1.finished THEN d ELSE calc_slack
       /\ calc_flip' = IF t1.finished THEN ~calc_flip ELSE calc_flip

\* bageltown.rs: a frame begins, Time gets its delta
NewFrame ==
    /\ prog = "bageltown"
    /\ todo = {}
    /\ \E d \in Deltas :
          /\ delta' = d
          /\ since_calc' = since_calc + d
    /\ todo' = {"move_bot"}
    /\ UNCHANGED <<prog, tagVars, posVars, mvpVars>>
    /\ UNCHANGED <<orbit_timer, destination, bot_steer, calc_slack, calc_flip>>
    /\ UNCHANGED notGame

\* bageltown.rs: move_bot, which also moves the bot toward the destination
MoveBotBagel ==
    /\ prog = "bageltown"
    /\ "move_bot" \in todo
    /\ todo' = todo \ {"move_bot"}
    /\ OrbitPart(delta)
    /\ b_pos' \in BotSpots
    /\ UNCHANGED <<prog, delta, tagVars, p_pos, mvpVars>>
    /\ UNCHANGED notGame

(***************************************************************************)
(* hovermvp.rs                                                             *)
(***************************************************************************)
\* Timer10hzForBot and Timer10hzForLaser: Duration::from_millis(100), in steps
TenHz == 6
\* const BOT_LASER_INTERVAL_SECONDS: u64 = 5, in steps
BotLaserInterval == 300
\* Time::<Fixed>::from_seconds(1.0 / MAX_FRAMERATE): one step
FixedDelta == 1

\* laser::LASER_DURATION in steps; laser.rs of hovermvp.rs is not part of the
\* sources, the model takes a duration longer than one 10 Hz period
LaserDuration == 7
\* the fixed steps the model follows a game for
MaxSteps == 316

Pilots == {"Player", "Bot"}

\* init_targets: the player targets the bot and the bot the player
target(p) == IF p = "Player" THEN "Bot" ELSE "Player"

\* Option<Timer>::None
NoTimer == [elapsed |-> -1, finished |-> FALSE]

\* Pilot {..default()} after init_targets; ship stands for the ship and the
\* cannon reference, which init_ship sets together, laser for the laser one
NewPilot ==
    [needs_start_fire_large_laser |-> FALSE,
     still_firing_large_laser |-> FALSE,
     laser_timer |-> NoTimer,
     ship |-> FALSE,
     laser |-> FALSE,
     dead |-> FALSE,
     just_died |-> FALSE]

MvpInit ==
    /\ steps = 0
    /\ crashed = FALSE
    /\ pilots = [p \in Pilots |-> NewPilot]
    /\ laser_vis = [p \in Pilots |-> "Hidden"]
    /\ sound_playing = [p \in Pilots |-> "none"]
    /\ hits = {}
    /\ cannon_initialized = FALSE
    /\ laser_initialized = FALSE
    /\ timer10bot = NewTimer
    /\ timer10laser = NewTimer
    /\ timer_bot_laser = NewTimer
    /\ ship_vis = "Visible"
    /\ explode_vis = "Hidden"
    /\ anim_playing = FALSE

\* the game runs: hovermvp.rs, and no system has panicked
Running == prog = "hovermvp" /\ ~crashed

\* between two schedule passes
Idle == Running /\ todo = {}

\* init_laser, in PreUpdate of the first frame: both lasers are children of
\* their pilots from setup on
InitLaser ==
    /\ Idle
    /\ ~laser_initialized
    /\ pilots' = [p \in Pilots |-> [pilots[p] EXCEPT !.laser = TRUE]]
    /\ laser_initialized' = TRUE
    /\ UNCHANGED <<steps, crashed, laser_vis, sound_playing, hits, cannon_initialized,
                   timer10bot, timer10laser, timer_bot_laser,
                   ship_vis, explode_vis, anim_playing>>
    /\ UNCHANGED <<prog, delta, todo, tagVars, posVars, orbitVars>>
    /\ UNCHANGED notGame

\* init_ship, in PreUpdate of the first frame in which the ship scenes of the
\* pilots in loaded are there: each of them gets its cannon and ship, and
\* CannonInitialized is set, which switches init_ship off
InitShip ==
    /\ Idle
    /\ ~cannon_initialized
    /\ \E loaded \in (SUBSET Pilots) \ {{}} :
          pilots' = [p \in Pilots |->
                        IF p \in loaded THEN [pilots[p] EXCEPT !.ship = TRUE]
                        ELSE pilots[p]]
    /\ cannon_initialized' = TRUE
    /\ UNCHANGED <<steps, crashed, laser_vis, sound_playing, hits, laser_initialized,
                   timer10bot, timer10laser, timer_bot_laser,
                   ship_vis, explode_vis, anim_playing>>
    /\ UNCHANGED <<prog, delta, todo, tagVars, posVars, orbitVars>>
    /\ UNCHANGED notGame

\* (a fire request that does not look at still_firing_large_laser)
request_fire_always(p) == [p EXCEPT !.needs_start_fire_large_laser = TRUE]

\* move_player and move_bot: if !still_firing { needs_start_fire = true }
request_fire(p) ==
    IF ~p.still_firing_large_laser
    THEN [p EXCEPT !.needs_start_fire_large_laser = TRUE]
    ELSE p

\* move_player in a frame in which R is pressed (in a frame without R it
\* changes no Pilot field but facing)
MovePlayer ==
    /\ Idle
    /\ laser_initialized
    /\ pilots' = [pilots EXCEPT !["Player"] = request_fire(pilots["Player"])]
    /\ pilots' # pilots
    /\ UNCHANGED <<steps, crashed, laser_vis, sound_playing, hits,
                   cannon_initialized, laser_initialized,
                   timer10bot, timer10laser, timer_bot_laser,
                   ship_vis, explode_vis, anim_playing>>
    /\ UNCHANGED <<prog, delta, todo, tagVars, posVars, orbitVars>>
    /\ UNCHANGED notGame

\* a pass of FixedUpdate begins: move_bot and handle_laser are to run, in
\* either order
FixedStep ==
    /\ Idle
    /\ laser_initialized
    /\ steps < MaxSteps
    /\ steps' = steps + 1
    /\ delta' = FixedDelta
    /\ since_calc' = since_calc + FixedDelta
    /\ todo' = {"move_bot", "handle_laser"}
    /\ UNCHANGED <<crashed, pilots, laser_vis, sound_playing, hits,
                   cannon_initialized, laser_initialized,
                   timer10bot, timer10laser, timer_bot_laser,
                   ship_vis, explode_vis, anim_playing>>
    /\ UNCHANGED <<prog, tagVars, posVars>>
    /\ UNCHANGED <<orbit_timer, destination, bot_steer, calc_slack, calc_flip>>
    /\ UNCHANGED notGame

\* move_bot of hovermvp.rs
MoveBotMvp ==
    /\ Running
    /\ "move_bot" \in todo
    /\ todo' = todo \ {"move_bot"}
    /\ LET tl == tick_repeating(timer_bot_laser, delta, BotLaserInterval)
           t10 == tick_repeating(timer10bot, delta, TenHz)
           bot == pilots["Bot"]
       IN /\ timer_bot_laser' = tl
          /\ timer10bot' = t10
          /\ IF ~t10.finished /\ ~tl.finished
             THEN \* this func only fires every 10hz
                  UNCHANGED <<pilots, crashed, ship_vis, explode_vis,
                              anim_playing, orbitVars>>
             ELSE IF bot.dead
             THEN /\ IF bot.just_died
                     THEN IF ~bot.ship
                          THEN \* b_p.ship.unwrap()
                               /\ crashed' = TRUE
                               /\ pilots' = [pilots EXCEPT !["Bot"].just_died = FALSE]
                               /\ UNCHANGED <<ship_vis, explode_vis, anim_playing>>
                          ELSE /\ pilots' = [pilots EXCEPT !["Bot"].just_died = FALSE]
                               /\ ship_vis' = "Hidden"
                               /\ explode_vis' = "Visible"
                               /\ anim_playing' = TRUE
                               /\ UNCHANGED crashed
                     ELSE UNCHANGED <<pilots, crashed, ship_vis, explode_vis,
                                      anim_playing>>
                  /\ UNCHANGED orbitVars
             ELSE /\ pilots' = IF tl.finished
                               THEN [pilots EXCEPT !["Bot"] = request_fire(bot)]
                               ELSE pilots
                  /\ OrbitPart(delta)
                  /\ UNCHANGED <<crashed, ship_vis, explode_vis, anim_playing>>
    /\ UNCHANGED <<steps, laser_vis, sound_playing, hits, cannon_initialized,
                   laser_initialized, timer10laser>>
    /\ UNCHANGED <<prog, delta, tagVars, posVars>>
    /\ UNCHANGED notGame

\* (a tick that leaves the pilot firing when its timer is up)
laser_ticked_keeps_firing(p, d) ==
    IF p.laser_timer = NoTimer THEN p
    ELSE [p EXCEPT !.laser_timer = tick_once(p.laser_timer, d, LaserDuration)]

\* handle_laser, first loop: the laser timer of a pilot is ticked
laser_ticked(p, d) ==
    IF p.laser_timer = NoTimer THEN p
    ELSE LET lt == tick_once(p.laser_timer, d, LaserDuration)
         IN IF lt.finished
            THEN [p EXCEPT !.laser_timer = lt, !.still_firing_large_laser = FALSE]
            ELSE [p EXCEPT !.laser_timer = lt]

\* handle_laser, first loop: the timer of the pilot is finished after the tick
laser_over(p, d) ==
    /\ p.laser_timer # NoTimer
    /\ tick_once(p.laser_timer, d, LaserDuration).finished

\* handle_laser, pilots_to_mark: the request becomes a firing and the laser
\* timer is created or reset
marked(p) ==
    [p EXCEPT !.needs_start_fire_large_laser = FALSE,
              !.still_firing_large_laser = TRUE,
              !.laser_timer = IF p.laser_timer = NoTimer THEN NewTimer
                              ELSE reset(p.laser_timer)]

\* handle_laser, pilots_to_kill
killed(p) == [p EXCEPT !.dead = TRUE, !.just_died = TRUE]

\* handle_laser: the pilot is looked at in the 10 Hz part
firing(p) == p.needs_start_fire_large_laser \/ p.still_firing_large_laser

\* (every shooter whose laser hits kills its target)
pilots_to_kill_any_shooter(ps, shooters, hit) ==
    {target(p) : p \in {q \in shooters : q \in hit}}

\* handle_laser, pilots_to_kill: only do this when the laser starts firing
pilots_to_kill(ps, shooters, hit) ==
    {target(p) : p \in {q \in shooters :
                            ps[q].needs_start_fire_large_laser /\ q \in hit}}

\* handle_laser; hit is the set of the shooters p for whose laser laser::hits
\* returns true
HandleLaser ==
    /\ Running
    /\ "handle_laser" \in todo
    /\ todo' = todo \ {"handle_laser"}
    /\ LET p1 == [p \in Pilots |-> laser_ticked(pilots[p], delta)]
           over == {p \in Pilots : laser_over(pilots[p], delta)}
           vis1 == [p \in Pilots |-> IF p \in over THEN "Hidden" ELSE laser_vis[p]]
           snd1 == [p \in Pilots |-> IF p \in over THEN "false" ELSE sound_playing[p]]
           t10 == tick_repeating(timer10laser, delta, TenHz)
           shooters == {p \in Pilots : firing(p1[p])}
           marks == {p \in shooters : p1[p].needs_start_fire_large_laser}
       IN /\ timer10laser' = t10
          /\ IF \E p \in over : ~pilots[p].laser
             THEN \* pilot.laser.unwrap()
                  /\ crashed' = TRUE
                  /\ hits' = {}
                  /\ UNCHANGED <<pilots, laser_vis, sound_playing>>
             ELSE IF ~t10.finished
             THEN \* this func only fires every 10hz
                  /\ pilots' = p1
                  /\ laser_vis' = vis1
                  /\ sound_playing' = snd1
                  /\ hits' = {}
                  /\ UNCHANGED crashed
             ELSE IF \E p \in shooters : ~p1[p].ship
             THEN \* pilot.ship.unwrap(), pilot.cannon.unwrap()
                  /\ crashed' = TRUE
                  /\ pilots' = p1
                  /\ laser_vis' = vis1
                  /\ sound_playing' = snd1
                  /\ hits' = {}
             ELSE \E hit \in SUBSET shooters :
                     LET kills == pilots_to_kill(p1, shooters, hit)
                         p2 == [p \in Pilots |->
                                   IF p \in marks THEN marked(p1[p]) ELSE p1[p]]
                     IN /\ pilots' = [p \in Pilots |->
                                         IF p \in kills THEN killed(p2[p]) ELSE p2[p]]
                        /\ laser_vis' = [p \in Pilots |->
                                            IF p \in shooters /\ p1[p].laser
                                            THEN "Visible" ELSE vis1[p]]
                        /\ sound_playing' = [p \in Pilots |->
                                                IF p \in shooters /\ p1[p].laser
                                                THEN "true" ELSE snd1[p]]
                        /\ hits' = hit
                        /\ UNCHANGED crashed
    /\ UNCHANGED <<steps, cannon_initialized, laser_initialized,
                   timer10bot, timer_bot_laser, ship_vis, explode_vis, anim_playing>>
    /\ UNCHANGED <<prog, delta, tagVars, posVars, orbitVars>>
    /\ UNCHANGED notGame

GameInit ==
    /\ prog \in Progs
    /\ delta = 0
    /\ todo = {}
    /\ TagInit
    /\ PosInit
    /\ OrbitInit
    /\ MvpInit

(***************************************************************************)
(* the specifications: each runs one program (or one concern of the tag    *)
(* games) and leaves the variables of the others alone                     *)
(***************************************************************************)
InitAstar == AstarInit /\ FontInit /\ GameInit

NextAstar ==
    \/ AddRoom
    \/ AddRoomsBegin
    \/ AddRoomsIter
    \/ AddRoomsEnd
    \/ GetRandomWall
    \/ GetRandomWallSpin
    \/ GetRandomWallPanic
    \/ Path
    \/ AddPaths
    \/ DropRet

SpecAstar == InitAstar /\ [][NextAstar]_vars

FairAstar == SpecAstar /\ WF_vars(AddRoomsIter) /\ WF_vars(AddRoomsEnd) /\ WF_vars(DropRet)

InitFont == AstarInit /\ FontInit /\ GameInit

NextFont ==
    \/ Startup
    \/ FontFits
    \/ FontLoopEnd
    \/ EnterMainLoop
    \/ LeaveMainLoop

SpecFont == InitFont /\ [][NextFont]_vars

InitTag == AstarInit /\ FontInit /\ GameInit

NextTag ==
    \/ HandleTag
    \/ MoveShips

SpecTag == InitTag /\ [][NextTag]_vars

InitMvp == AstarInit /\ FontInit /\ GameInit /\ prog = "hovermvp"

NextMvp ==
    \/ InitLaser
    \/ InitShip
    \/ MovePlayer
    \/ FixedStep
    \/ MoveBotMvp
    \/ HandleLaser

SpecMvp == InitMvp /\ [][NextMvp]_vars

\* the schedule runner keeps running FixedUpdate and its systems
FairMvp ==
    /\ SpecMvp
    /\ WF_vars(FixedStep)
    /\ WF_vars(MoveBotMvp)
    /\ WF_vars(HandleLaser)

\* both games with the ships moving, hovermvp.rs without the R key
InitOrbit == AstarInit /\ FontInit /\ GameInit

NextOrbit ==
    \/ NewFrame
    \/ MoveBotBagel
    \/ MoveShips
    \/ InitLaser
    \/ InitShip
    \/ FixedStep
    \/ MoveBotMvp
    \/ HandleLaser

SpecOrbit == InitOrbit /\ [][NextOrbit]_vars

(***************************************************************************)
(* astar.rs : properties                                                   *)
(***************************************************************************)
\* the step is a call of add_room (from outside or from the add_rooms loop)
IsAddRoomStep == last_ret'.op = "add_room"

\* C1: whenever one of the four sampled corner cells data[start_y][start_x],
\* data[start_y][end_x], data[end_y][start_x], data[end_y][end_x] is not
\* Full, add_room returns false and leaves every cell and the rooms list
\* unchanged.
C1_RejectedRoomChangesNothing ==
    [][IsAddRoomStep =>
        LET start_x == last_ret'.start_x
            start_y == last_ret'.start_y
            end_x == last_ret'.start_x + last_ret'.size_x
            end_y == last_ret'.start_y + last_ret'.size_y
        IN (\/ data[start_y][start_x] # "Full"
            \/ data[start_y][end_x] # "Full"
            \/ data[end_y][start_x] # "Full"
            \/ data[end_y][end_x] # "Full")
           => (last_ret'.ret = FALSE /\ data' = data /\ rooms' = rooms)]_vars

\* a room was rejected although its start corner is Full
C1_Witness ==
    /\ last_ret.op = "add_room"
    /\ last_ret.ret = FALSE
    /\ data[last_ret.start_y][last_ret.start_x] = "Full"
    /\ Len(rooms) >= 1

\* C2: path, get_random_wall and add_paths leave the grid and the rooms list
\* as they were, and no reachable cell is Corridor or Debug.
C2_PathfinderDigsNothing ==
    /\ [](\A y \in DOMAIN data : \A x \in DOMAIN data[y] :
              data[y][x] \in {"Full", "WideWall", "TallWall", "Innards"})
    /\ [][last_ret'.op \in {"path", "get_random_wall", "add_paths"}
             => (data' = data /\ rooms' = rooms)]_vars

\* add_paths ran path(0, 1) on a map of two rooms
C2_Witness ==
    /\ last_ret.op = "add_paths"
    /\ last_ret.rooms = 2
    /\ Len(rooms) = 2

\* C3: a successful add_room appends exactly one Room {x: start_x,
\* y: start_y, width: size_x, height: size_y} with 4 <= width, height <= 10;
\* the rectangle [x, x+width) x [y, y+height) is WideWall on its top and
\* bottom rows, TallWall on the first and last column of the rows between,
\* Innards elsewhere inside, and every cell outside it is unchanged.
C3_PlacedRoomIsDrawn ==
    [][(IsAddRoomStep /\ last_ret'.ret = TRUE) =>
        LET rx == last_ret'.start_x
            ry == last_ret'.start_y
            w == last_ret'.size_x
            h == last_ret'.size_y
        IN /\ rooms' = Append(rooms, [x |-> rx, y |-> ry, width |-> w, height |-> h])
           /\ 4 <= w /\ w <= 10 /\ 4 <= h /\ h <= 10
           /\ \A y \in DOMAIN data : \A x \in DOMAIN data[y] :
                 data'[y][x] =
                    IF x >= rx /\ x < rx + w /\ y >= ry /\ y < ry + h
                    THEN IF y = ry \/ y = ry + h - 1 THEN "WideWall"
                         ELSE IF x = rx \/ x = rx + w - 1 THEN "TallWall"
                         ELSE "Innards"
                    ELSE data[y][x]]_vars

\* a room was placed on a map that already had one
C3_Witness ==
    /\ last_ret.op = "add_room"
    /\ last_ret.ret = TRUE
    /\ Len(rooms) >= 2

C7_FontErrorReturnsEarly ==
    /\ [](last_fit = "err" =>
            /\ hc_pc = "returned_err"
            /\ hc_err = "font_fits"
            /\ font_size = NoSize
            /\ ~in_loop)
    /\ [][last_fit = "err" => UNCHANGED <<probes, fontsize, highest_fit, font_size, hc_pc>>]_vars

\* font_fits failed after some sizes had fit
C7_Witness ==
    /\ last_fit = "err"
    /\ hc_pc = "returned_err"
    /\ highest_fit >= FirstFontSize
    /\ probes >= 2

(***************************************************************************)
(* bageltown.rs and hovermvp.rs : properties of the tag                    *)
(***************************************************************************)
\* the it flags are swapped in this step
IsTagStep == p_it' # p_it \/ b_it' # b_it

\* C8: a tag happens only in a frame in which the 1.0 s cooldown timer is
\* finished and the player and the bot are closer than 2 * radius; after a
\* tag no further tag happens until 1.0 s of frame time has been ticked, and
\* no tag happens during the first second after startup.
C8_TagCooldown ==
    [][IsTagStep =>
        /\ tag_timer.elapsed + delta' >= TagCooldown
        /\ Dist2(b_pos, p_pos) < 400
        /\ ticked_since_tag + delta' >= StepsPerSecond
        /\ tag_timer' = [elapsed |-> 0, finished |-> FALSE]]_vars

\* a second tag: the player was it and the bot is it again
C8_Witness ==
    /\ tag_timer = NewTimer
    /\ ticked_since_tag = 0
    /\ tag_ready = FALSE
    /\ b_it /\ ~p_it

\* C9: exactly one of the player and the bot is it.
C9_ExactlyOneIsIt == p_it # b_it

\* the player is it
C9_Witness == p_it /\ ~b_it /\ proclamation = "Visible"
\* a call of move_bot, of either game
IsMoveBotStep == "move_bot" \in todo /\ "move_bot" \notin todo'

\* C5: OrbitCache.destination changes only in a call of move_bot in which the
\* OrbitTimer has just finished, that is, whose tick took it to the interval;
\* in every other call of move_bot the destination keeps its value, and
\* whenever move_bot steers the bot it steers it toward the cached destination.
C5_DestinationIsCached ==
    /\ [][destination' # destination =>
            /\ IsMoveBotStep
            /\ orbit_timer'.finished
            /\ orbit_timer.elapsed + delta >= OrbitInterval]_vars
    /\ [][IsMoveBotStep /\ orbit_timer.elapsed + delta < OrbitInterval =>
            destination' = destination]_vars
    /\ [][bot_steer' # bot_steer => IsMoveBotStep /\ bot_steer' = destination']_vars
    /\ [](bot_steer = destination)

\* C5 witness: in hovermvp.rs the timer has just finished in a call of
\* move_bot, the destination is a computed one and the bot steers toward it
C5_Witness ==
    /\ prog = "hovermvp"
    /\ orbit_timer.finished
    /\ destination # ZeroDest
    /\ destination.ahead_of # Vec2(BOT_START_OFFSET, 0)
    /\ bot_steer = destination

\* a call of move_bot in which the destination is computed
IsCalcStep == calc_flip' # calc_flip

\* C6: the destination is computed once every ORBIT_CALC_INTERVAL of game
\* time, to within one frame or fixed step: when it is computed, the game
\* time since the last computation (or since the start) is less than one frame
\* more than the interval, and not less than the interval by more than the
\* frame of the last computation.
C6_RecomputedEveryInterval ==
    [][IsCalcStep =>
          /\ since_calc < OrbitInterval + delta
          /\ since_calc + calc_slack >= OrbitInterval]_vars

\* C6 in bageltown.rs alone
C6_BageltownOnly ==
    [][IsCalcStep /\ prog = "bageltown" =>
          /\ since_calc < OrbitInterval + delta
          /\ since_calc + calc_slack >= OrbitInterval]_vars

\* C10: no pilot of hovermvp.rs has needs_start_fire_large_laser and
\* still_firing_large_laser both true, after any system of any pass.
C10_RequestXorFiring ==
    \A p \in Pilots :
        ~(pilots[p].needs_start_fire_large_laser /\ pilots[p].still_firing_large_laser)

\* C10 witness: both pilots have asked to fire and handle_laser has made both
\* requests a firing
C10_Witness ==
    /\ pilots["Player"].still_firing_large_laser
    /\ pilots["Bot"].still_firing_large_laser
    /\ ~pilots["Player"].needs_start_fire_large_laser
    /\ pilots["Player"].laser_timer.elapsed > 0

\* a run of handle_laser
IsHandleLaserStep == "handle_laser" \in todo /\ "handle_laser" \notin todo'

\* C11: every laser firing ends.  A run of handle_laser that starts a firing
\* leaves the pilot's laser timer at zero; the run in which the tick takes the
\* timer of a firing pilot to LASER_DURATION hides its laser, clears
\* still_firing_large_laser and marks its sound as not playing; at the end of
\* every run a laser is Visible exactly when its pilot is still firing; and
\* while the game runs on, a pilot that is firing stops firing.
C11_FiringEnds ==
    /\ [][IsHandleLaserStep /\ ~crashed' =>
            \A p \in Pilots :
               /\ (~pilots[p].still_firing_large_laser
                      /\ pilots'[p].still_firing_large_laser
                   => pilots'[p].laser_timer = NewTimer)
               /\ (pilots[p].still_firing_large_laser
                      /\ pilots[p].laser_timer.elapsed + delta >= LaserDuration
                   => /\ ~pilots'[p].still_firing_large_laser
                      /\ laser_vis'[p] = "Hidden"
                      /\ sound_playing'[p] = "false")
               /\ (laser_vis'[p] = "Visible"
                   <=> pilots'[p].still_firing_large_laser)]_vars
    /\ \A p \in Pilots :
          (pilots[p].still_firing_large_laser /\ ~crashed
              /\ steps + LaserDuration <= MaxSteps)
          ~> (~pilots[p].still_firing_large_laser \/ crashed)

\* C11 witness: the bot has fired and its firing has been ended by the timer
C11_Witness ==
    /\ ~crashed
    /\ pilots["Bot"].laser_timer # NoTimer
    /\ pilots["Bot"].laser_timer.finished
    /\ ~pilots["Bot"].still_firing_large_laser
    /\ laser_vis["Bot"] = "Hidden"
    /\ sound_playing["Bot"] = "false"

\* C12: the dead flag of a pilot becomes true only in a run of handle_laser
\* that passes the 10 Hz gate, in which a pilot that targets it has
\* needs_start_fire_large_laser set and laser::hits returned true for that
\* pilot's laser (a shooter that is only still firing kills nobody); and a
\* dead flag that is true stays true.
C12_DeadOnlyByNewHit ==
    [][\A q \in Pilots :
          /\ (~pilots[q].dead /\ pilots'[q].dead
              => /\ IsHandleLaserStep
                 /\ timer10laser'.finished
                 /\ \E p \in Pilots :
                       /\ target(p) = q
                       /\ pilots[p].needs_start_fire_large_laser
                       /\ p \in hits')
          /\ (pilots[q].dead => pilots'[q].dead)]_vars

\* C12 witness: the player's new firing has hit and the bot is dead, just
\* after the run of handle_laser that did it
C12_Witness ==
    /\ pilots["Bot"].dead
    /\ pilots["Bot"].just_died
    /\ "Player" \in hits
    /\ pilots["Player"].still_firing_large_laser
    /\ pilots["Player"].laser_timer = NewTimer

\* C13: handle_laser never unwraps an unset reference: in a run that passes
\* the 10 Hz gate every pilot that asks to fire or is still firing has its
\* ship, cannon and laser assigned, and no run of handle_laser panics.
C13_NoUnsetUnwrap ==
    [][IsHandleLaserStep =>
          /\ ~crashed'
          /\ (timer10laser'.finished =>
                 \A p \in Pilots :
                    firing(laser_ticked(pilots[p], delta))
                    => pilots[p].ship /\ pilots[p].laser)]_vars

\* C14: whenever CannonInitialized is true, every Pilot has its cannon and its
\* ship assigned.
C14_ShipInitComplete ==
    cannon_initialized => \A p \in Pilots : pilots[p].ship

\* C15: once a pilot is dead, needs_start_fire_large_laser is never set for
\* it again.
C15_DeadNeverRequests ==
    [][\A p \in Pilots :
          pilots[p].dead /\ ~pilots[p].needs_start_fire_large_laser
          => ~pilots'[p].needs_start_fire_large_laser]_vars

\* C15 for the bot alone, whose move_bot returns before the request when the
\* bot is dead
C15_BotOnly ==
    [][pilots["Bot"].dead /\ ~pilots["Bot"].needs_start_fire_large_laser
          => ~pilots'["Bot"].needs_start_fire_large_laser]_vars

\* C16: after the death handling of move_bot has run (the ship model is
\* hidden, the exploding model is shown and the animation plays), just_died of
\* the bot is false in every later state.
C16_DeathHandledOnce ==
    (ship_vis = "Hidden" /\ explode_vis = "Visible" /\ anim_playing)
    => ~pilots["Bot"].just_died

====
